---- MODULE Spec2Model ----
(***************************************************************************)
(* Model of src/index.js: an Express application with two async route      *)
(* handlers, GET /rooms and POST /book.  Each handler awaits getToken()    *)
(* (one POST to the identity token endpoint), then awaits one call to      *)
(* Microsoft Graph (directory read or calendar write), then answers with   *)
(* res.json().  Neither handler has a try/catch: when an awaited axios     *)
(* call rejects, the handler's promise rejects and what the caller sees    *)
(* depends on the host (Express major version, Node's unhandled-rejection  *)
(* mode, whether the axios error carries a status); package metadata is    *)
(* not part of the source, so the build is one of Builds, fixed in Init.   *)
(*                                                                         *)
(* Strings that are spliced into a URL are sequences of symbols, with "/"  *)
(* the path separator, so that the template literal of line 40 is a        *)
(* concatenation and the receiving server's view of the path is a split.   *)
(***************************************************************************)
EXTENDS Integers, Sequences, FiniteSets, TLC

\* Number of requests the server receives in one run.
NumReq == 2

Requests == 1..NumReq

----------------------------------------------------------------------------
\* Values

NoToken == "<none>"

\* access_token values the identity service hands out.
Tokens == {"tok123", "tok456"}

\* Room records of the directory service (opaque to the relay).
Room1 == [id |-> "r1", emailAddress |-> "room1@x.com"]
Room2 == [id |-> "r2", emailAddress |-> "room2@x.com"]
RoomLists == {<< >>, <<Room1>>, <<Room2, Room1>>}

\* Bodies of POST /book: {userEmail, roomEmail, start, end}, plain strings.
\* userEmail is a symbol sequence because it is spliced into a URL.
Bookings ==
  { [userEmail |-> <<"alice@x.com">>, roomEmail |-> "room1@x.com",
     start |-> "2024-01-01T10:00:00Z", end |-> "2024-01-01T11:00:00Z"],
    [userEmail |-> <<"bob@x.com">>, roomEmail |-> "room2@x.com",
     start |-> "2024-01-02T09:00:00Z", end |-> "2024-01-02T09:30:00Z"],
    [userEmail |-> <<"a", "/", "b">>, roomEmail |-> "room1@x.com",
     start |-> "2024-01-01T10:00:00Z", end |-> "2024-01-01T11:00:00Z"] }

\* Rejections of an axios call: a non-2xx answer, or no answer at all.
HttpError(s) == [ok |-> FALSE, hasResponse |-> TRUE, status |-> s, data |-> "error"]
NetworkError == [ok |-> FALSE, hasResponse |-> FALSE, status |-> 0, data |-> "error"]
IdentityErrors == {HttpError(401), NetworkError}
GraphErrors == {HttpError(503), NetworkError}

\* Fulfilment of an axios call.
HttpOk(s, d) == [ok |-> TRUE, hasResponse |-> TRUE, status |-> s, data |-> d]

\* The hosts the source can run on.
Builds ==
  { [express |-> 4, unhandledRejections |-> "warn", errStatus |-> FALSE],
    [express |-> 4, unhandledRejections |-> "throw", errStatus |-> FALSE],
    [express |-> 5, unhandledRejections |-> "throw", errStatus |-> FALSE],
    [express |-> 5, unhandledRejections |-> "throw", errStatus |-> TRUE] }

----------------------------------------------------------------------------
\* Pure parts of the handlers

\* s1 \o s2 \o s3: a template literal with one substitution.
Template(prefix, value, suffix) == prefix \o value \o suffix

\* Line 15: the token endpoint.
TokenUrl == <<"https:", "/", "/", "login.microsoftonline.com", "/",
              "YOUR_TENANT_ID", "/", "oauth2", "/", "v2.0", "/", "token">>

\* Lines 14-22: the request getToken sends.
TokenRequest ==
  [to |-> "identity", method |-> "POST", url |-> TokenUrl,
   form |-> [client_id |-> "YOUR_CLIENT_ID", client_secret |-> "YOUR_CLIENT_SECRET",
             scope |-> "https://graph.microsoft.com/.default",
             grant_type |-> "client_credentials"]]

\* Line 23: res.data.access_token
AccessToken(reply) == reply.data.access_token

\* Lines 30 and 51: { Authorization: `Bearer ${token}` }
AuthHeader(token) == <<"Bearer", token>>

\* Line 29
RoomsUrl == <<"https:", "/", "/", "graph.microsoft.com", "/", "v1.0", "/",
              "places", "/", "microsoft.graph.room">>

\* Lines 28-31: the directory read.
RoomsRequest(token) ==
  [to |-> "directory", method |-> "GET", url |-> RoomsUrl,
   headers |-> [Authorization |-> AuthHeader(token)]]

\* Line 40: `https://graph.microsoft.com/v1.0/users/${userEmail}/events`
EventsUrl(userEmail) ==
  Template(<<"https:", "/", "/", "graph.microsoft.com", "/", "v1.0", "/", "users", "/">>,
           userEmail,
           <<"/", "events">>)

\* Lines 41-50: the event the calendar is asked to create.
EventBody(body) ==
  [subject |-> "Room Reservation",
   start |-> [dateTime |-> body.start, timeZone |-> "UTC"],
   end |-> [dateTime |-> body.end, timeZone |-> "UTC"],
   attendees |-> << [emailAddress |-> [address |-> body.roomEmail], type |-> "resource"] >>,
   isOnlineMeeting |-> TRUE,
   onlineMeetingProvider |-> "teamsForBusiness"]

\* Lines 39-52: the calendar write.
EventRequest(body, token) ==
  [to |-> "calendar", method |-> "POST", url |-> EventsUrl(body.userEmail),
   body |-> EventBody(body),
   headers |-> [Authorization |-> AuthHeader(token)]]

\* A relay that loses the last room of the collection.
RoomsPayloadDropLast(reply) ==
  SubSeq(reply.data.value, 1, Len(reply.data.value) - 1)

\* Line 32: rooms.data.value
RoomsPayload(reply) == reply.data.value

\* Line 54: meeting.data
MeetingPayload(reply) == reply.data

\* How the receiving server reads a URL: the symbols after the origin
\* (scheme, "//", host), split at every "/".
RECURSIVE SplitAt(_, _)
SplitAt(s, acc) ==
  IF s = << >> THEN <<acc>>
  ELSE IF Head(s) = "/" THEN <<acc>> \o SplitAt(Tail(s), << >>)
  ELSE SplitAt(Tail(s), Append(acc, Head(s)))

PathSegments(url) == SplitAt(SubSeq(url, 6, Len(url)), << >>)

----------------------------------------------------------------------------
VARIABLES
  build,     \* the host the source runs on
  alive,     \* the Node process is running
  nreq,      \* number of requests received so far
  req,       \* req[r]: the request as the handler sees it (kind, body)
  pc,        \* pc[r]: where handler r is
  token,     \* token[r]: the handler's local `token`
  calls,     \* calls[r]: the outbound requests handler r has issued, in order
  replies,   \* replies[r]: the outcomes of those requests handler r has seen
  resp,      \* resp[r]: the responses sent to the caller of r, in order
  events     \* the events the calendar service has created, in order

vars == <<build, alive, nreq, req, pc, token, calls, replies, resp, events>>

NoReq == [kind |-> "none", body |-> "none"]

Init ==
  /\ build \in Builds
  /\ alive = TRUE
  /\ nreq = 0
  /\ req = [r \in Requests |-> NoReq]
  /\ pc = [r \in Requests |-> "none"]
  /\ token = [r \in Requests |-> NoToken]
  /\ calls = [r \in Requests |-> << >>]
  /\ replies = [r \in Requests |-> << >>]
  /\ resp = [r \in Requests |-> << >>]
  /\ events = << >>

----------------------------------------------------------------------------
\* The host

\* Express 5 default error handler: err.status when it is 4xx/5xx, else 500.
ErrorStatus(e) ==
  IF build.errStatus /\ e.hasResponse /\ e.status >= 400 /\ e.status < 600
  THEN e.status ELSE 500

\* An awaited call of handler r rejected with e; the handler has no catch, so
\* its promise rejects.  Express 5 forwards the rejection to the default error
\* handler; Express 4 ignores the returned promise, and the unhandled
\* rejection is either only logged or ends the process.
Throw(r, e) ==
  /\ replies' = [replies EXCEPT ![r] = Append(@, e)]
  /\ IF build.express = 5
     THEN /\ resp' = [resp EXCEPT ![r] = Append(@, [status |-> ErrorStatus(e), body |-> "error"])]
          /\ pc' = [pc EXCEPT ![r] = "errored"]
          /\ alive' = alive
     ELSE /\ resp' = resp
          /\ IF build.unhandledRejections = "throw"
             THEN /\ alive' = FALSE
                  /\ pc' = [q \in Requests |->
                              IF q = r THEN "rejected"
                              ELSE IF pc[q] \in {"awaitToken", "awaitGraph"} THEN "killed"
                              ELSE pc[q]]
             ELSE /\ alive' = alive
                  /\ pc' = [pc EXCEPT ![r] = "rejected"]

----------------------------------------------------------------------------
\* The handlers

\* A relay that keeps the last token in a module-level cache and skips the
\* identity call when one is there.
ReceiveRoomsCachedToken ==
  /\ alive /\ nreq < NumReq
  /\ LET r == nreq + 1
         have == {q \in Requests : token[q] # NoToken} IN
       /\ nreq' = r
       /\ req' = [req EXCEPT ![r] = [kind |-> "rooms", body |-> "none"]]
       /\ IF have = {}
          THEN /\ calls' = [calls EXCEPT ![r] = Append(@, TokenRequest)]
               /\ pc' = [pc EXCEPT ![r] = "awaitToken"]
               /\ token' = token
          ELSE LET t == token[CHOOSE q \in have : TRUE] IN
               /\ calls' = [calls EXCEPT ![r] = Append(@, RoomsRequest(t))]
               /\ pc' = [pc EXCEPT ![r] = "awaitGraph"]
               /\ token' = [token EXCEPT ![r] = t]
  /\ UNCHANGED <<build, alive, replies, resp, events>>

\* Lines 26-27 and 13-22: GET /rooms arrives; the handler runs to its first
\* await, inside getToken.
ReceiveRooms ==
  /\ alive /\ nreq < NumReq
  /\ LET r == nreq + 1 IN
       /\ nreq' = r
       /\ req' = [req EXCEPT ![r] = [kind |-> "rooms", body |-> "none"]]
       /\ calls' = [calls EXCEPT ![r] = Append(@, TokenRequest)]
       /\ pc' = [pc EXCEPT ![r] = "awaitToken"]
  /\ UNCHANGED <<build, alive, token, replies, resp, events>>

\* A handler that calls getToken() without awaiting it: the calendar write
\* goes out at once, with the pending promise spliced into the header.
ReceiveBookNoAwait(b) ==
  /\ alive /\ nreq < NumReq
  /\ LET r == nreq + 1 IN
       /\ nreq' = r
       /\ req' = [req EXCEPT ![r] = [kind |-> "book", body |-> b]]
       /\ calls' = [calls EXCEPT ![r] =
                      <<TokenRequest, EventRequest(b, "[object Promise]")>>]
       /\ pc' = [pc EXCEPT ![r] = "awaitGraph"]
  /\ UNCHANGED <<build, alive, token, replies, resp, events>>

\* Lines 35-37 and 13-22: POST /book arrives with body b.
ReceiveBook(b) ==
  /\ alive /\ nreq < NumReq
  /\ LET r == nreq + 1 IN
       /\ nreq' = r
       /\ req' = [req EXCEPT ![r] = [kind |-> "book", body |-> b]]
       /\ calls' = [calls EXCEPT ![r] = Append(@, TokenRequest)]
       /\ pc' = [pc EXCEPT ![r] = "awaitToken"]
  /\ UNCHANGED <<build, alive, token, replies, resp, events>>

\* A relay whose token lives in one variable shared by all requests: the
\* call carries whatever another in-flight request stored there.
DownstreamRequestSharedToken(r, t) ==
  LET others == {q \in Requests \ {r} : token[q] # NoToken}
      shared == IF others = {} THEN t ELSE token[CHOOSE q \in others : TRUE] IN
  IF req[r].kind = "rooms" THEN RoomsRequest(shared)
  ELSE EventRequest(req[r].body, shared)

\* Lines 23, 27-31 / 37-52: the identity service answers 200 with access_token
\* t; getToken returns it and the handler issues its Graph call.
DownstreamRequest(r, t) ==
  IF req[r].kind = "rooms" THEN RoomsRequest(t) ELSE EventRequest(req[r].body, t)

TokenResolved(r, t) ==
  /\ alive /\ pc[r] = "awaitToken"
  /\ LET reply == HttpOk(200, [access_token |-> t]) IN
       /\ replies' = [replies EXCEPT ![r] = Append(@, reply)]
       /\ token' = [token EXCEPT ![r] = AccessToken(reply)]
       /\ calls' = [calls EXCEPT ![r] = Append(@, DownstreamRequest(r, AccessToken(reply)))]
  /\ pc' = [pc EXCEPT ![r] = "awaitGraph"]
  /\ UNCHANGED <<build, alive, nreq, req, resp, events>>

\* A getToken that catches the rejection and returns undefined: the handler
\* goes on to call Graph with "Bearer undefined".
TokenRejectedSwallowed(r, e) ==
  /\ alive /\ pc[r] = "awaitToken"
  /\ replies' = [replies EXCEPT ![r] = Append(@, e)]
  /\ calls' = [calls EXCEPT ![r] = Append(@, DownstreamRequest(r, "undefined"))]
  /\ pc' = [pc EXCEPT ![r] = "awaitGraph"]
  /\ UNCHANGED <<build, alive, nreq, req, token, resp, events>>

\* Lines 14, 27 / 37: the identity call rejects; getToken and the handler throw.
TokenRejected(r, e) ==
  /\ alive /\ pc[r] = "awaitToken"
  /\ Throw(r, e)
  /\ UNCHANGED <<build, nreq, req, token, calls, events>>

\* Lines 28-32: the directory answers 200 with {value: rooms}.
RoomsResolved(r, rooms) ==
  /\ alive /\ pc[r] = "awaitGraph" /\ req[r].kind = "rooms"
  /\ LET reply == HttpOk(200, [value |-> rooms]) IN
       /\ replies' = [replies EXCEPT ![r] = Append(@, reply)]
       /\ resp' = [resp EXCEPT ![r] = Append(@, [status |-> 200, body |-> RoomsPayload(reply)])]
  /\ pc' = [pc EXCEPT ![r] = "responded"]
  /\ UNCHANGED <<build, alive, nreq, req, token, calls, events>>

\* A relay that answers a repeated booking from the event made for the first.
BookResolvedDeduplicated(r) ==
  /\ alive /\ pc[r] = "awaitGraph" /\ req[r].kind = "book"
  /\ LET mine == calls[r][Len(calls[r])]
         same == {i \in DOMAIN events :
                    /\ events[i].write.url = mine.url
                    /\ events[i].write.body = mine.body}
         created == IF same = {}
                    THEN [id |-> Len(events) + 1, write |-> mine]
                    ELSE events[CHOOSE i \in same : TRUE]
         reply == HttpOk(201, created) IN
       /\ events' = IF same = {} THEN Append(events, created) ELSE events
       /\ replies' = [replies EXCEPT ![r] = Append(@, reply)]
       /\ resp' = [resp EXCEPT ![r] = Append(@, [status |-> 200, body |-> MeetingPayload(reply)])]
  /\ pc' = [pc EXCEPT ![r] = "responded"]
  /\ UNCHANGED <<build, alive, nreq, req, token, calls>>

\* Lines 39-54: the calendar creates the event and answers 201 with it.
BookResolved(r) ==
  /\ alive /\ pc[r] = "awaitGraph" /\ req[r].kind = "book"
  /\ LET created == [id |-> Len(events) + 1, write |-> calls[r][Len(calls[r])]]
         reply == HttpOk(201, created) IN
       /\ events' = Append(events, created)
       /\ replies' = [replies EXCEPT ![r] = Append(@, reply)]
       /\ resp' = [resp EXCEPT ![r] = Append(@, [status |-> 200, body |-> MeetingPayload(reply)])]
  /\ pc' = [pc EXCEPT ![r] = "responded"]
  /\ UNCHANGED <<build, alive, nreq, req, token, calls>>

\* A handler that sends a failed Graph call once more before giving up.
GraphRejectedRetried(r, e) ==
  /\ alive /\ pc[r] = "awaitGraph"
  /\ IF Len(replies[r]) < 2
     THEN /\ replies' = [replies EXCEPT ![r] = Append(@, e)]
          /\ calls' = [calls EXCEPT ![r] = Append(@, calls[r][Len(calls[r])])]
          /\ UNCHANGED <<alive, pc, resp>>
     ELSE /\ Throw(r, e)
          /\ calls' = calls
  /\ UNCHANGED <<build, nreq, req, token, events>>

\* Lines 28 / 39: the Graph call rejects; the handler throws.
GraphRejected(r, e) ==
  /\ alive /\ pc[r] = "awaitGraph"
  /\ Throw(r, e)
  /\ UNCHANGED <<build, nreq, req, token, calls, events>>

Next ==
  \/ ReceiveRooms
  \/ \E b \in Bookings : ReceiveBook(b)
  \/ \E r \in Requests, t \in Tokens : TokenResolved(r, t)
  \/ \E r \in Requests, e \in IdentityErrors : TokenRejected(r, e)
  \/ \E r \in Requests, rooms \in RoomLists : RoomsResolved(r, rooms)
  \/ \E r \in Requests : BookResolved(r)
  \/ \E r \in Requests, e \in GraphErrors : GraphRejected(r, e)

Spec == Init /\ [][Next]_vars

----------------------------------------------------------------------------
\* What a request's history says

CallsTo(r, S) == {i \in DOMAIN calls[r] : calls[r][i].to \in S}
Graph == {"directory", "calendar"}

TokenOk(r) == Len(replies[r]) >= 1 /\ replies[r][1].ok
TokenFailed(r) == Len(replies[r]) >= 1 /\ ~replies[r][1].ok
GraphOk(r) == Len(replies[r]) >= 2 /\ replies[r][2].ok
GraphFailed(r) == Len(replies[r]) >= 2 /\ ~replies[r][2].ok
Failed(r) == \E i \in DOMAIN replies[r] : ~replies[r][i].ok

\* The token the identity service gave request r.
Fetched(r) == replies[r][1].data.access_token

RECURSIVE Total(_, _)
Total(f(_), n) == IF n = 0 THEN 0 ELSE f(n) + Total(f, n - 1)

IdentityCallsOf(r) == Cardinality(CallsTo(r, {"identity"}))
CalendarCallsOf(r) == Cardinality(CallsTo(r, {"calendar"}))

----------------------------------------------------------------------------
\* C1: a GET /rooms request whose token call succeeded has issued exactly one
\* directory read and no calendar write; the read is a GET of the rooms URL
\* with "Bearer <the token the identity service returned to this request>";
\* and once the directory has answered 200, the one response to the caller is
\* 200 with exactly the directory answer's `value` sequence.
C1_RoomsRelayedUnchanged ==
  \A r \in Requests :
    (req[r].kind = "rooms" /\ TokenOk(r)) =>
      /\ Cardinality(CallsTo(r, {"directory"})) = 1
      /\ CallsTo(r, {"calendar"}) = {}
      /\ \A i \in CallsTo(r, {"directory"}) :
           /\ calls[r][i].method = "GET"
           /\ calls[r][i].url = RoomsUrl
           /\ calls[r][i].headers.Authorization = <<"Bearer", Fetched(r)>>
      /\ GraphOk(r) =>
           resp[r] = << [status |-> 200, body |-> replies[r][2].data.value] >>

C1_Witness ==
  \E r \in Requests :
    /\ req[r].kind = "rooms" /\ pc[r] = "responded"
    /\ replies[r][2].data.value = <<Room2, Room1>>
    /\ resp[r][1].body = <<Room2, Room1>>

\* C2: a POST /book request whose token call succeeded has issued exactly one
\* calendar write; the path of that write, as the calendar service reads it,
\* is /v1.0/users/<userEmail>/events with userEmail one segment; roomEmail is
\* the address of the single attendee, of type "resource"; start and end are
\* {dateTime: input, timeZone: "UTC"}; the online-meeting flag is set; the
\* write carries the fetched token; and once the calendar has answered, the
\* response to the caller is the calendar's answer.
C2_BookMapsInputs ==
  \A r \in Requests :
    (req[r].kind = "book" /\ TokenOk(r)) =>
      /\ CalendarCallsOf(r) = 1
      /\ \A i \in CallsTo(r, {"calendar"}) :
           LET c == calls[r][i]
               b == req[r].body IN
           /\ c.method = "POST"
           /\ PathSegments(c.url) = << <<"v1.0">>, <<"users">>, b.userEmail, <<"events">> >>
           /\ c.body.attendees = << [emailAddress |-> [address |-> b.roomEmail],
                                     type |-> "resource"] >>
           /\ c.body.start = [dateTime |-> b.start, timeZone |-> "UTC"]
           /\ c.body.end = [dateTime |-> b.end, timeZone |-> "UTC"]
           /\ c.body.isOnlineMeeting = TRUE
           /\ c.headers.Authorization = <<"Bearer", Fetched(r)>>
      /\ GraphOk(r) => resp[r] = << [status |-> 200, body |-> replies[r][2].data] >>

\* C2, for organizers whose address holds no path separator: the same
\* statement holds.
C2_BookMapsInputsNoSeparator ==
  \A r \in Requests :
    (/\ req[r].kind = "book" /\ TokenOk(r)
     /\ \A k \in DOMAIN req[r].body.userEmail : req[r].body.userEmail[k] # "/") =>
      /\ CalendarCallsOf(r) = 1
      /\ \A i \in CallsTo(r, {"calendar"}) :
           LET c == calls[r][i]
               b == req[r].body IN
           /\ c.method = "POST"
           /\ PathSegments(c.url) = << <<"v1.0">>, <<"users">>, b.userEmail, <<"events">> >>
           /\ c.body.attendees = << [emailAddress |-> [address |-> b.roomEmail],
                                     type |-> "resource"] >>
           /\ c.body.start = [dateTime |-> b.start, timeZone |-> "UTC"]
           /\ c.body.end = [dateTime |-> b.end, timeZone |-> "UTC"]
           /\ c.body.isOnlineMeeting = TRUE
           /\ c.headers.Authorization = <<"Bearer", Fetched(r)>>
      /\ GraphOk(r) => resp[r] = << [status |-> 200, body |-> replies[r][2].data] >>

\* C3: a request (of either kind) whose token call failed has issued no
\* directory or calendar call, its handler has ended by throwing, and the
\* caller has been sent no 2xx response.
C3_NoDownstreamAfterTokenFailure ==
  \A r \in Requests :
    TokenFailed(r) =>
      /\ CallsTo(r, Graph) = {}
      /\ pc[r] \in {"rejected", "errored"}
      /\ \A i \in DOMAIN resp[r] : resp[r][i].status >= 400

C3_Witness ==
  /\ \E r \in Requests : req[r].kind = "rooms" /\ TokenFailed(r)
  /\ \E r \in Requests : req[r].kind = "book" /\ TokenFailed(r)

\* The handler of r has run to its end (returned or thrown).
Ended(r) == pc[r] \in {"responded", "rejected", "errored"}

\* C4: a request whose token call succeeded, whose directory/calendar call
\* was answered with an error status and whose handler has ended has been
\* sent exactly one response, and that response carries the status the
\* directory/calendar service returned.
C4_UpstreamStatusSurfaced ==
  \A r \in Requests :
    (TokenOk(r) /\ GraphFailed(r) /\ replies[r][2].hasResponse /\ Ended(r)) =>
      /\ Len(resp[r]) = 1
      /\ resp[r][1].status = replies[r][2].status

\* C5: a request whose token call or directory/calendar call failed, and
\* whose handler has ended, has been sent a response, and that response is
\* not 2xx.  (When the host answers a thrown handler at all it does so in the
\* step in which the handler throws; once the handler has ended no step of
\* the request remains, so "eventually" is decided in that state.)
C5_FailureYieldsNon2xx ==
  \A r \in Requests :
    (Failed(r) /\ Ended(r)) =>
      /\ Len(resp[r]) = 1
      /\ ~(resp[r][1].status >= 200 /\ resp[r][1].status < 300)

\* C5, the half that holds: a failed call never yields a 2xx response.
C5_FailureNever2xx ==
  \A r \in Requests :
    Failed(r) =>
      \A i \in DOMAIN resp[r] : ~(resp[r][i].status >= 200 /\ resp[r][i].status < 300)

\* C6: every POST /book request whose token call succeeded has issued one
\* calendar write, identical inputs or not; the calendar has created one
\* event per write it answered; each answered caller was sent the event its
\* own write created; and two answered requests, identical inputs included,
\* were sent two distinct events.
BookWrites(r) == IF req[r].kind = "book" /\ TokenOk(r) THEN 1 ELSE 0
BookAnswers(r) == IF req[r].kind = "book" /\ GraphOk(r) THEN 1 ELSE 0

C6_NoDeduplication ==
  /\ Total(CalendarCallsOf, NumReq) = Total(BookWrites, NumReq)
  /\ Len(events) = Total(BookAnswers, NumReq)
  /\ \A r \in Requests :
       (req[r].kind = "book" /\ GraphOk(r)) =>
         /\ Len(resp[r]) = 1
         /\ resp[r][1].body = replies[r][2].data
         /\ resp[r][1].body.id \in DOMAIN events
         /\ events[resp[r][1].body.id].write = calls[r][2]
  /\ \A r, q \in Requests :
       (r # q /\ req[r].kind = "book" /\ req[q].kind = "book"
        /\ GraphOk(r) /\ GraphOk(q)) =>
         resp[r][1].body.id # resp[q][1].body.id

C6_Witness ==
  \E r, q \in Requests :
    /\ r # q /\ req[r].kind = "book" /\ req[q].kind = "book"
    /\ req[r].body = req[q].body
    /\ token[r] = token[q]
    /\ pc[r] = "responded" /\ pc[q] = "responded"
    /\ Len(events) = 2

C8_NoRetry ==
  \A r \in Requests :
    /\ IdentityCallsOf(r) <= 1
    /\ Cardinality(CallsTo(r, Graph)) <= 1
    /\ \A i \in DOMAIN replies[r] :
         ~replies[r][i].ok =>
           /\ Len(calls[r]) = i
           /\ Len(replies[r]) = i
           /\ pc[r] \in {"rejected", "errored"}

C8_Witness ==
  /\ \E r \in Requests : TokenFailed(r) /\ Len(calls[r]) = 1
  /\ \E r \in Requests : TokenOk(r) /\ GraphFailed(r) /\ Len(calls[r]) = 2

\* C9: whatever the other requests are doing, the directory/calendar call of
\* a request carries the token returned to that request and is built from
\* that request's own inputs, and a 200 response is built from the answer to
\* that request's own call (for a booking: the event its own write created).
C9_RequestsDoNotInterfere ==
  \A r \in Requests :
    /\ \A i \in CallsTo(r, Graph) :
         /\ calls[r][i].headers.Authorization = <<"Bearer", Fetched(r)>>
         /\ req[r].kind = "book" =>
              /\ calls[r][i].url = EventsUrl(req[r].body.userEmail)
              /\ calls[r][i].body.start.dateTime = req[r].body.start
              /\ calls[r][i].body.end.dateTime = req[r].body.end
              /\ calls[r][i].body.attendees[1].emailAddress.address = req[r].body.roomEmail
    /\ \A i \in DOMAIN resp[r] :
         resp[r][i].status = 200 =>
           /\ GraphOk(r)
           /\ req[r].kind = "rooms" => resp[r][i].body = replies[r][2].data.value
           /\ req[r].kind = "book" =>
                /\ resp[r][i].body = replies[r][2].data
                /\ resp[r][i].body.write = calls[r][2]

\* Two requests in flight at once, holding different tokens, different inputs.
C9_Witness ==
  \E r, q \in Requests :
    /\ r < q
    /\ pc[r] = "awaitGraph" /\ pc[q] = "responded"
    /\ req[r].kind = "book" /\ req[q].kind = "book" /\ req[r] # req[q]
    /\ token[r] # token[q]

\* C10: in every request the directory/calendar call is the second call,
\* after the identity call, and is issued only once the identity call has
\* been answered successfully; a 200 response is sent only when both calls
\* of the request have succeeded; and at most one response is sent.
C10_LinearSequence ==
  \A r \in Requests :
    /\ \A i \in CallsTo(r, Graph) :
         /\ i = 2
         /\ calls[r][1].to = "identity"
         /\ TokenOk(r)
    /\ \A i \in DOMAIN resp[r] :
         resp[r][i].status = 200 => (Len(replies[r]) = 2 /\ TokenOk(r) /\ GraphOk(r))
    /\ Len(resp[r]) <= 1
    /\ Len(replies[r]) <= Len(calls[r])

C10_Witness ==
  /\ \E r \in Requests : pc[r] = "responded" /\ resp[r][1].status = 200
  /\ \E r \in Requests : pc[r] = "awaitGraph" /\ resp[r] = << >>

====
